---- MODULE Spec2Model ----
(***************************************************************************)
(* The book pipeline of src/App.tsx: handleFileUpload, processChapters and *)
(* generateCover, with the React state they update and the outbound calls  *)
(* (parseDocx, generateBookStructure, generateChapterContent,              *)
(* generateBookCover) they await.  One action is one synchronous segment   *)
(* of a handler: from its entry, or from the settling of the promise it    *)
(* awaits, up to the next await or its return.                             *)
(***************************************************************************)
EXTENDS Integers, Sequences, FiniteSets, TLC

(* ------------------------------ bounds --------------------------------- *)
MaxUploads == 2
MaxChapters == 3
MaxCoverClicks == 1

(* ------------------------- values of the inputs ------------------------ *)
UNDEF == "undefined"
NULL == "null"
Undefined == [undefined |-> TRUE]
NullBook == [null |-> TRUE]

\* the text parseDocx extracts: a document and its length in characters (a
\* prefix of a document is the same document with a smaller length)
RawTexts == {[doc |-> "rawA", len |-> 1000001]}
\* what the writer returns: any text, the empty one and the text of the error
\* placeholder (App.tsx:126) included
Contents == {"", "body", "Error generating content."}
Urls == {"url1", "url2"}
ErrMessages == {"", "boom"}

\* the plans the planner answers with: k chapters with ids "1".."k", or two
\* chapters that carry the same id (nothing in the code makes the ids differ)
PlannedChapter(id) == [id |-> id, title |-> "t", description |-> "d"]
Plans == {[i \in 1..k |-> PlannedChapter(ToString(i))] : k \in 0..MaxChapters}
            \cup {<<PlannedChapter("1"), PlannedChapter("1")>>}
PlannedMetadata == [title |-> "T", author |-> "A", summary |-> "S", language |-> "en"]
\* what JSON.parse returns: a well-formed structure for each plan, and the
\* structures that lack metadata, chapters or both (nothing validates the JSON)
Structures ==
    {[metadata |-> PlannedMetadata, chapters |-> [items |-> s]] : s \in Plans}
        \cup {[metadata |-> Undefined, chapters |-> [items |-> <<PlannedChapter("1")>>]],
              [metadata |-> PlannedMetadata, chapters |-> Undefined],
              [metadata |-> Undefined, chapters |-> Undefined]}

Runs == 1..MaxUploads
CoverCalls == 1..(MaxUploads + MaxCoverClicks)

(* --------------------------- program constants ------------------------- *)
IDLE == "IDLE"
PARSING == "PARSING"
PLANNING == "PLANNING"
WRITING == "WRITING"
ERROR == "ERROR"
SUCCESS == "SUCCESS"

INITIAL_STEPS == <<"pending", "pending", "pending", "pending">>
DefaultMetadata == [title |-> "Unknown", author |-> "Unknown", summary |-> "", language |-> "en"]
DefaultErrorMsg == "An unexpected error occurred processing your book."
ErrorPlaceholder == "Error generating content."
PageStep == 15
PlannerContextLimit == 1000000
WriterContextLimit == 1000000

VARIABLES loadingState, steps, book, activeChapterId, isGeneratingCover, errorMsg,
          nruns, upload, writing, cover, ncovers, nclicks, issued, caught, abortRef

vars == <<loadingState, steps, book, activeChapterId, isGeneratingCover, errorMsg,
          nruns, upload, writing, cover, ncovers, nclicks, issued, caught, abortRef>>

(* ------------------------------ helpers -------------------------------- *)
Max(a, b) == IF a > b THEN a ELSE b

Min(a, b) == IF a < b THEN a ELSE b

\* text.substring(0, n)
Substring(text, n) == [text EXCEPT !.len = Min(text.len, Max(n, 0))]

\* the manuscript part of the planner's prompt: rawText.substring(0, 1000000)
PlannerContext(rawText) == Substring(rawText, PlannerContextLimit)

\* mutant: the writer is given a shorter prefix than the planner
WriterContext_Shorter(fullManuscript) == Substring(fullManuscript, WriterContextLimit - 1)

\* the manuscript part of the writer's prompt: fullManuscript.substring(0, 1000000)
WriterContext(fullManuscript) == Substring(fullManuscript, WriterContextLimit)

\* the arguments of generateChapterContent for chapter i (1-based) of currentBook,
\* with the manuscript as it enters the prompt
WriterRequest(currentBook, i, rawText) ==
    [title |-> currentBook.chapters[i].title,
     description |-> currentBook.chapters[i].description,
     context |-> WriterContext(rawText),
     metadata |-> currentBook.metadata]

\* updateStepStatus: the step at 0-based index gets the status
updateStepStatus(prev, index, status) ==
    [k \in 1..Len(prev) |-> IF k = index + 1 THEN status ELSE prev[k]]

\* a slot of the chapters array that was never assigned a chapter
Hole == [id |-> UNDEF, title |-> UNDEF, description |-> UNDEF,
         status |-> UNDEF, content |-> UNDEF, pageStart |-> 0]

\* updated[i] = { ...updated[i], status, content? } on a copy of prev.chapters;
\* i is the 1-based position (the code's i + 1)
ChapterAt(chs, k) == IF k <= Len(chs) THEN chs[k] ELSE Hole
AssignChapter(chs, i, value) ==
    [k \in 1..Max(Len(chs), i) |-> IF k = i THEN value ELSE ChapterAt(chs, k)]


\* mutant: every chapter still pending is started at once
MarkGenerating_AllPending(prev, i) ==
    IF prev = NullBook THEN NullBook
    ELSE [prev EXCEPT !.chapters =
            [k \in 1..Len(prev.chapters) |->
                IF k >= i /\ prev.chapters[k].status = "pending"
                THEN [prev.chapters[k] EXCEPT !.status = "generating"] ELSE prev.chapters[k]]]

\* mutant: a chapter being written already shows a text
MarkGenerating_Placeholder(prev, i) ==
    IF prev = NullBook THEN NullBook
    ELSE [prev EXCEPT !.chapters = AssignChapter(prev.chapters, i,
                [ChapterAt(prev.chapters, i) EXCEPT !.status = "generating",
                                                    !.content = "Writing..."])]

MarkGenerating(prev, i) ==
    IF prev = NullBook THEN NullBook
    ELSE [prev EXCEPT !.chapters = AssignChapter(prev.chapters, i,
                [ChapterAt(prev.chapters, i) EXCEPT !.status = "generating"])]

\* mutant: the chapter is marked completed but the returned content is dropped
MarkCompleted_NoContent(prev, i, content) ==
    IF prev = NullBook THEN NullBook
    ELSE [prev EXCEPT !.chapters =
            AssignChapter(prev.chapters, i,
                [ChapterAt(prev.chapters, i) EXCEPT !.status = "completed"])]

\* mutant: the chapter is replaced by a record of status and content alone
MarkCompleted_NoSpread(prev, i, content) ==
    IF prev = NullBook THEN NullBook
    ELSE [prev EXCEPT !.chapters =
            AssignChapter(prev.chapters, i,
                [Hole EXCEPT !.status = "completed", !.content = content])]

\* mutant: an empty body is taken for a failure
MarkCompleted_EmptyIsError(prev, i, content) ==
    IF prev = NullBook THEN NullBook
    ELSE [prev EXCEPT !.chapters =
            AssignChapter(prev.chapters, i,
                IF content = ""
                THEN [ChapterAt(prev.chapters, i) EXCEPT !.status = "error",
                                                         !.content = ErrorPlaceholder]
                ELSE [ChapterAt(prev.chapters, i) EXCEPT !.status = "completed",
                                                         !.content = content])]

MarkCompleted(prev, i, content) ==
    IF prev = NullBook THEN NullBook
    ELSE [prev EXCEPT !.chapters =
            AssignChapter(prev.chapters, i,
                [ChapterAt(prev.chapters, i) EXCEPT !.status = "completed", !.content = content])]

\* mutant: a failed chapter is put back in the queue
MarkError_Requeue(prev, i) ==
    IF prev = NullBook THEN NullBook
    ELSE [prev EXCEPT !.chapters =
            AssignChapter(prev.chapters, i,
                [ChapterAt(prev.chapters, i) EXCEPT !.status = "pending", !.content = ErrorPlaceholder])]

MarkError(prev, i) ==
    IF prev = NullBook THEN NullBook
    ELSE [prev EXCEPT !.chapters =
            AssignChapter(prev.chapters, i,
                [ChapterAt(prev.chapters, i) EXCEPT !.status = "error", !.content = ErrorPlaceholder])]

\* mutant: the cover result is written over the Book the request started from
SetCover_Snapshot(prev, url) ==
    IF prev = NullBook THEN NullBook
    ELSE [prev EXCEPT !.coverUrl = url,
                      !.chapters = [k \in 1..Len(prev.chapters) |->
                            [prev.chapters[k] EXCEPT !.status = "pending", !.content = ""]]]

\* mutant: a cover is only stored when the Book has none yet
SetCover_KeepFirst(prev, url) ==
    IF prev = NullBook THEN NullBook
    ELSE IF prev.coverUrl = UNDEF THEN [prev EXCEPT !.coverUrl = url] ELSE prev

\* setBook(prev => prev ? { ...prev, coverUrl: url } : null)
SetCover(prev, url) ==
    IF prev = NullBook THEN NullBook ELSE [prev EXCEPT !.coverUrl = url]

\* mutant: the display position is counted from the next chapter's index
MaterializeChapters_OneBased(structure) ==
    LET planned == IF structure.chapters = Undefined THEN <<>> ELSE structure.chapters.items
    IN  [k \in 1..Len(planned) |->
            [id |-> planned[k].id, title |-> planned[k].title,
             description |-> planned[k].description,
             status |-> "pending", content |-> "", pageStart |-> k * PageStep + 1]]

\* (structure.chapters || []).map(...) and the newBook literal
MaterializeChapters(structure) ==
    LET planned == IF structure.chapters = Undefined THEN <<>> ELSE structure.chapters.items
    IN  [k \in 1..Len(planned) |->
            [id |-> planned[k].id, title |-> planned[k].title,
             description |-> planned[k].description,
             status |-> "pending", content |-> "", pageStart |-> (k - 1) * PageStep + 1]]

Materialize(structure, rawText) ==
    [metadata |-> IF structure.metadata = Undefined THEN DefaultMetadata ELSE structure.metadata,
     chapters |-> MaterializeChapters(structure),
     rawText |-> rawText,
     coverUrl |-> UNDEF]

\* mutant: the cause is replaced by the generic text
ErrText_Generic(message) == DefaultErrorMsg

\* err.message || "An unexpected error occurred processing your book."
ErrText(message) == IF message = "" THEN DefaultErrorMsg ELSE message

showEditor == loadingState \in {WRITING, SUCCESS}

\* no synchronous segment is half-way: user events are only dispatched then
Quiescent == \A r \in Runs : upload[r].pc # "processChapters"

(* ------------------------------- state --------------------------------- *)
\* context: the manuscript as it entered the planner's prompt
NoUpload == [pc |-> "unused", rawText |-> Undefined, newBook |-> NullBook,
             context |-> Undefined]
\* requests: the arguments of the writer requests issued so far, in order
NoWriting == [pc |-> "unused", i |-> 0, currentBook |-> NullBook, rawText |-> Undefined,
              results |-> <<>>, requests |-> <<>>]
\* by: the caller of generateCover, "processChapters" or "button"
NoCover == [pc |-> "unused", run |-> 0, metadata |-> Undefined, by |-> "none"]
\* the error the catch block of the latest upload received, if it ran
NoCatch == [run |-> 0, message |-> UNDEF]
NoIssued == [parseDocx |-> 0, generateBookStructure |-> 0,
             generateChapterContent |-> [k \in 1..MaxChapters |-> 0]]

Init ==
    /\ loadingState = IDLE
    /\ steps = INITIAL_STEPS
    /\ book = NullBook
    /\ activeChapterId = NULL
    /\ isGeneratingCover = FALSE
    /\ errorMsg = NULL
    /\ nruns = 0
    /\ upload = [r \in Runs |-> NoUpload]
    /\ writing = [r \in Runs |-> NoWriting]
    /\ cover = [c \in CoverCalls |-> NoCover]
    /\ ncovers = 0
    /\ nclicks = 0
    /\ issued = [r \in Runs |-> NoIssued]
    /\ caught = NoCatch
    /\ abortRef = FALSE


(* ----------------------- handleFileUpload (31-80) ---------------------- *)
\* entry of handleFileUpload up to `await parseDocx(file)`
handleFileUpload ==
    /\ nruns < MaxUploads
    /\ nruns' = nruns + 1
    /\ loadingState' = PARSING
    /\ errorMsg' = NULL
    /\ book' = NullBook
    /\ steps' = updateStepStatus(INITIAL_STEPS, 0, "processing")
    /\ upload' = [upload EXCEPT ![nruns + 1].pc = "parseDocx"]
    /\ issued' = [issued EXCEPT ![nruns + 1].parseDocx = @ + 1]
    /\ caught' = NoCatch
    /\ UNCHANGED <<activeChapterId, isGeneratingCover, writing, cover, ncovers, nclicks,
                   abortRef>>

\* the catch block of handleFileUpload
Catch(r, message) ==
    /\ loadingState' = ERROR
    /\ errorMsg' = ErrText(message)
    /\ steps' = updateStepStatus(steps, 0, "error")
    /\ upload' = [upload EXCEPT ![r].pc = "caught"]
    /\ caught' = [run |-> r, message |-> message]
    /\ UNCHANGED <<book, activeChapterId, isGeneratingCover, nruns, writing, cover,
                   ncovers, nclicks, issued,
                   abortRef>>

\* parseDocx resolved: lines 41-48, up to `await generateBookStructure`
parseDocxResolved(r, rawText) ==
    /\ upload[r].pc = "parseDocx"
    /\ steps' = updateStepStatus(updateStepStatus(updateStepStatus(steps, 0, "completed"),
                                                  1, "processing"), 2, "processing")
    /\ loadingState' = PLANNING
    /\ upload' = [upload EXCEPT ![r].pc = "generateBookStructure", ![r].rawText = rawText,
                                ![r].context = PlannerContext(rawText)]
    /\ issued' = [issued EXCEPT ![r].generateBookStructure = @ + 1]
    /\ UNCHANGED <<book, activeChapterId, isGeneratingCover, errorMsg, nruns, writing,
                   cover, ncovers, nclicks, caught,
                   abortRef>>

parseDocxRejected(r, message) ==
    /\ upload[r].pc = "parseDocx"
    /\ Catch(r, message)

\* generateBookStructure resolved: lines 50-69, up to the call of processChapters
generateBookStructureResolved(r, structure) ==
    /\ upload[r].pc = "generateBookStructure"
    /\ LET newBook == Materialize(structure, upload[r].rawText)
       IN  /\ book' = newBook
           /\ upload' = [upload EXCEPT ![r].pc = "processChapters", ![r].newBook = newBook]
    /\ steps' = updateStepStatus(updateStepStatus(updateStepStatus(steps, 1, "completed"),
                                                  2, "completed"), 3, "processing")
    /\ loadingState' = WRITING
    /\ UNCHANGED <<activeChapterId, isGeneratingCover, errorMsg, nruns, writing, cover,
                   ncovers, nclicks, issued, caught,
                   abortRef>>

\* generateBookStructure threw (no text, JSON.parse) or line 50 threw on its result
generateBookStructureRejected(r, message) ==
    /\ upload[r].pc = "generateBookStructure"
    /\ Catch(r, message)

(* ------------------------ generateCover (136-146) ---------------------- *)
\* entry of generateCover up to `await generateBookCover(bookData.metadata)`
StartCover(r, bookData, by) ==
    /\ isGeneratingCover' = TRUE
    /\ ncovers' = ncovers + 1
    /\ cover' = [cover EXCEPT ![ncovers + 1] =
                    [pc |-> "generateBookCover", run |-> r, metadata |-> bookData.metadata,
                     by |-> by]]

generateBookCoverResolved(c, url) ==
    /\ cover[c].pc = "generateBookCover"
    /\ book' = SetCover(book, url)
    /\ isGeneratingCover' = FALSE
    /\ cover' = [cover EXCEPT ![c].pc = "returned"]
    /\ UNCHANGED <<loadingState, steps, activeChapterId, errorMsg, nruns, upload, writing,
                   ncovers, nclicks, issued, caught,
                   abortRef>>

\* mutant: a failed request clears the cover reference
generateBookCoverRejected_Clear(c) ==
    /\ cover[c].pc = "generateBookCover"
    /\ book' = SetCover(book, UNDEF)
    /\ isGeneratingCover' = FALSE
    /\ cover' = [cover EXCEPT ![c].pc = "failed"]
    /\ UNCHANGED <<loadingState, steps, activeChapterId, errorMsg, nruns, upload,
                   writing, ncovers, nclicks, issued, caught,
                   abortRef>>

\* mutant: the flag is cleared on success only (no finally block)
generateBookCoverRejected_KeepFlag(c) ==
    /\ cover[c].pc = "generateBookCover"
    /\ cover' = [cover EXCEPT ![c].pc = "failed"]
    /\ UNCHANGED <<loadingState, steps, book, activeChapterId, isGeneratingCover, errorMsg,
                   nruns, upload, writing, ncovers, nclicks, issued, caught, abortRef>>

generateBookCoverRejected(c) ==
    /\ cover[c].pc = "generateBookCover"
    /\ isGeneratingCover' = FALSE
    /\ cover' = [cover EXCEPT ![c].pc = "failed"]
    /\ UNCHANGED <<loadingState, steps, book, activeChapterId, errorMsg, nruns, upload,
                   writing, ncovers, nclicks, issued, caught,
                   abortRef>>

(* ----------------------- processChapters (83-134) ---------------------- *)
\* mutant: the run is only declared done when no chapter failed
LoopFrom_DoneIfClean(r, prev, i, currentBook, rawText, results) ==
    IF i <= Len(currentBook.chapters)
    THEN /\ book' = MarkGenerating(prev, i)
         /\ writing' = [writing EXCEPT ![r] =
                [pc |-> "generateChapterContent", i |-> i, currentBook |-> currentBook,
                 rawText |-> rawText, results |-> results,
                 requests |-> Append(writing[r].requests,
                                     WriterRequest(currentBook, i, rawText))]]
         /\ issued' = [issued EXCEPT ![r].generateChapterContent[i] = @ + 1]
         /\ UNCHANGED <<loadingState, steps>>
    ELSE /\ book' = prev
         /\ writing' = [writing EXCEPT ![r] =
                [pc |-> "returned", i |-> i, currentBook |-> currentBook,
                 rawText |-> rawText, results |-> results,
                 requests |-> writing[r].requests]]
         /\ loadingState' = IF \A k \in 1..Len(results) : results[k].ok
                            THEN SUCCESS ELSE loadingState
         /\ steps' = updateStepStatus(steps, 3, "completed")
         /\ UNCHANGED issued

\* mutant: the loop stops one chapter short (i < length - 1)
LoopFrom_OneShort(r, prev, i, currentBook, rawText, results) ==
    IF i < Len(currentBook.chapters)
    THEN /\ book' = MarkGenerating(prev, i)
         /\ writing' = [writing EXCEPT ![r] =
                [pc |-> "generateChapterContent", i |-> i, currentBook |-> currentBook,
                 rawText |-> rawText, results |-> results,
                 requests |-> Append(writing[r].requests,
                                     WriterRequest(currentBook, i, rawText))]]
         /\ issued' = [issued EXCEPT ![r].generateChapterContent[i] = @ + 1]
         /\ UNCHANGED <<loadingState, steps>>
    ELSE /\ book' = prev
         /\ writing' = [writing EXCEPT ![r] =
                [pc |-> "returned", i |-> i, currentBook |-> currentBook,
                 rawText |-> rawText, results |-> results,
                 requests |-> writing[r].requests]]
         /\ loadingState' = SUCCESS
         /\ steps' = updateStepStatus(steps, 3, "completed")
         /\ UNCHANGED issued

\* the loop from the top of iteration i (1-based) on the Book prev: either the
\* chapter is marked generating and its content requested, or the loop is over
LoopFrom(r, prev, i, currentBook, rawText, results) ==
    IF i <= Len(currentBook.chapters)
    THEN /\ book' = MarkGenerating(prev, i)
         /\ writing' = [writing EXCEPT ![r] =
                [pc |-> "generateChapterContent", i |-> i, currentBook |-> currentBook,
                 rawText |-> rawText, results |-> results,
                 requests |-> Append(writing[r].requests,
                                     WriterRequest(currentBook, i, rawText))]]
         /\ issued' = [issued EXCEPT ![r].generateChapterContent[i] = @ + 1]
         /\ UNCHANGED <<loadingState, steps>>
    ELSE /\ book' = prev
         /\ writing' = [writing EXCEPT ![r] =
                [pc |-> "returned", i |-> i, currentBook |-> currentBook,
                 rawText |-> rawText, results |-> results,
                 requests |-> writing[r].requests]]
         /\ loadingState' = SUCCESS
         /\ steps' = updateStepStatus(steps, 3, "completed")
         /\ UNCHANGED issued

\* entry of processChapters up to the first await (or its return)
processChapters(r) ==
    /\ upload[r].pc = "processChapters"
    /\ LET currentBook == upload[r].newBook
       IN  /\ activeChapterId' = IF Len(currentBook.chapters) > 0
                                 THEN currentBook.chapters[1].id ELSE activeChapterId
           /\ StartCover(r, currentBook, "processChapters")
           /\ LoopFrom(r, book, 1, currentBook, upload[r].rawText, <<>>)
    /\ upload' = [upload EXCEPT ![r].pc = "returned"]
    /\ UNCHANGED <<errorMsg, nruns, nclicks, caught,
                   abortRef>>

\* mutant: the loop waits for the cover request before it goes on
generateChapterContentResolved_AfterCover(r, content) ==
    /\ writing[r].pc = "generateChapterContent"
    /\ ~isGeneratingCover
    /\ LET w == writing[r]
       IN  LoopFrom(r, MarkCompleted(book, w.i, content), w.i + 1, w.currentBook, w.rawText,
                    Append(w.results, [ok |-> TRUE, content |-> content]))
    /\ UNCHANGED <<activeChapterId, isGeneratingCover, errorMsg, nruns, upload, cover,
                   ncovers, nclicks, caught,
                   abortRef>>

generateChapterContentResolved(r, content) ==
    /\ writing[r].pc = "generateChapterContent"
    /\ LET w == writing[r]
       IN  LoopFrom(r, MarkCompleted(book, w.i, content), w.i + 1, w.currentBook, w.rawText,
                    Append(w.results, [ok |-> TRUE, content |-> content]))
    /\ UNCHANGED <<activeChapterId, isGeneratingCover, errorMsg, nruns, upload, cover,
                   ncovers, nclicks, caught,
                   abortRef>>

\* mutant: a failed chapter ends the loop (the try/catch is around the loop)
generateChapterContentRejected_Abort(r) ==
    /\ writing[r].pc = "generateChapterContent"
    /\ book' = MarkError(book, writing[r].i)
    /\ writing' = [writing EXCEPT ![r].pc = "returned",
                                  ![r].results = Append(@, [ok |-> FALSE, content |-> UNDEF])]
    /\ loadingState' = SUCCESS
    /\ steps' = updateStepStatus(steps, 3, "completed")
    /\ UNCHANGED <<activeChapterId, isGeneratingCover, errorMsg, nruns, upload, cover,
                   ncovers, nclicks, issued, caught,
                   abortRef>>

\* mutant: a failed chapter is handled like a failed plan
generateChapterContentRejected_Fatal(r) ==
    /\ writing[r].pc = "generateChapterContent"
    /\ book' = MarkError(book, writing[r].i)
    /\ writing' = [writing EXCEPT ![r].pc = "returned",
                                  ![r].results = Append(@, [ok |-> FALSE, content |-> UNDEF])]
    /\ loadingState' = ERROR
    /\ steps' = updateStepStatus(steps, 3, "error")
    /\ UNCHANGED <<activeChapterId, isGeneratingCover, errorMsg, nruns, upload, cover,
                   ncovers, nclicks, issued, caught,
                   abortRef>>

\* mutant: a failed chapter is requested a second time before it is given up
generateChapterContentRejected_Retry(r) ==
    /\ writing[r].pc = "generateChapterContent"
    /\ LET w == writing[r]
       IN  IF issued[r].generateChapterContent[w.i] < 2
           THEN LoopFrom(r, book, w.i, w.currentBook, w.rawText, w.results)
           ELSE LoopFrom(r, MarkError(book, w.i), w.i + 1, w.currentBook, w.rawText,
                         Append(w.results, [ok |-> FALSE, content |-> UNDEF]))
    /\ UNCHANGED <<activeChapterId, isGeneratingCover, errorMsg, nruns, upload, cover,
                   ncovers, nclicks, caught, abortRef>>

generateChapterContentRejected(r) ==
    /\ writing[r].pc = "generateChapterContent"
    /\ LET w == writing[r]
       IN  LoopFrom(r, MarkError(book, w.i), w.i + 1, w.currentBook, w.rawText,
                    Append(w.results, [ok |-> FALSE, content |-> UNDEF]))
    /\ UNCHANGED <<activeChapterId, isGeneratingCover, errorMsg, nruns, upload, cover,
                   ncovers, nclicks, caught,
                   abortRef>>

(* ------------------------------ the UI --------------------------------- *)
\* the FileUpload control is rendered only while loadingState is IDLE (209-218)
FileUploadRendered == loadingState = IDLE

\* the cover button (303-314): rendered with the editor, disabled while generating
CoverButton ==
    /\ Quiescent
    /\ showEditor /\ book # NullBook
    /\ ~isGeneratingCover
    /\ nclicks < MaxCoverClicks
    /\ nclicks' = nclicks + 1
    /\ StartCover(nruns, book, "button")
    /\ UNCHANGED <<loadingState, steps, book, activeChapterId, errorMsg, nruns, upload,
                   writing, issued, caught, abortRef>>

\* mutant: Try Again resumes the failed run at its first stage
TryAgain_Resume ==
    /\ loadingState = ERROR
    /\ loadingState' = PARSING
    /\ UNCHANGED <<steps, book, activeChapterId, isGeneratingCover, errorMsg, nruns,
                   upload, writing, cover, ncovers, nclicks, issued, caught,
                   abortRef>>

\* the Try Again button (244-258)
TryAgain ==
    /\ loadingState = ERROR
    /\ loadingState' = IDLE
    /\ UNCHANGED <<steps, book, activeChapterId, isGeneratingCover, errorMsg, nruns,
                   upload, writing, cover, ncovers, nclicks, issued, caught,
                   abortRef>>

(* --------------------------- specifications ---------------------------- *)
Settle ==
    \/ \E r \in Runs, rawText \in RawTexts : parseDocxResolved(r, rawText)
    \/ \E r \in Runs, m \in ErrMessages : parseDocxRejected(r, m)
    \/ \E r \in Runs, s \in Structures : generateBookStructureResolved(r, s)
    \/ \E r \in Runs, m \in ErrMessages : generateBookStructureRejected(r, m)
    \/ \E r \in Runs : processChapters(r)
    \/ \E r \in Runs, c \in Contents : generateChapterContentResolved(r, c)
    \/ \E r \in Runs : generateChapterContentRejected(r)
    \/ \E c \in CoverCalls, u \in Urls : generateBookCoverResolved(c, u)
    \/ \E c \in CoverCalls : generateBookCoverRejected(c)

\* the application as rendered: a file can only be chosen while FileUpload is shown
Next ==
    \/ (FileUploadRendered /\ handleFileUpload)
    \/ Settle
    \/ CoverButton
    \/ TryAgain

Spec == Init /\ [][Next]_vars

\* handleFileUpload entered whatever the stage, while the loop or the cover
\* request of an earlier run may be pending: the handler has no guard of its
\* own, only the rendering of FileUpload keeps it from running during a run
\* (the cover button is left out of this specification)
HandlersOver == \A q \in Runs : upload[q].pc \in {"unused", "returned", "caught"}

NextReentrant ==
    \/ (HandlersOver /\ handleFileUpload)
    \/ Settle
    \/ TryAgain

SpecReentrant == Init /\ [][NextReentrant]_vars

\* abortRef.current = true: the ref of lines 24-25 is a mutable cell; no
\* handler of the component assigns it, so the assignment is the act of
\* whoever signals the abort, possible at any moment
Abort ==
    /\ ~abortRef
    /\ abortRef' = TRUE
    /\ UNCHANGED <<loadingState, steps, book, activeChapterId, isGeneratingCover, errorMsg,
                   nruns, upload, writing, cover, ncovers, nclicks, issued, caught>>

NextAbort ==
    \/ Next
    \/ Abort

SpecAbort == Init /\ [][NextAbort]_vars

\* the scheduling the code relies on: a synchronous call runs, and every
\* chapter-writer request settles; nothing is assumed of the cover request
WriterSettles(r) ==
    \/ \E c \in Contents : generateChapterContentResolved(r, c)
    \/ generateChapterContentRejected(r)

FairSpec ==
    /\ Spec
    /\ \A r \in Runs : WF_vars(processChapters(r))
    /\ \A r \in Runs : WF_vars(WriterSettles(r))


(* ------------------------------ properties ----------------------------- *)
Resolved(status) == status \in {"completed", "error"}
Started(status) == status \in {"generating", "completed", "error"}
Chapters == IF book = NullBook THEN <<>> ELSE book.chapters

\* C1: sequential ordering. In every state, a chapter after the first is
\* generating, completed or error only if the chapter before it is completed or
\* error; so the chapters are a prefix of resolved ones, then at most one
\* generating chapter, then pending chapters only.
C1_SequentialOrdering ==
    /\ \A i \in 2..Len(Chapters) :
          Started(Chapters[i].status) => Resolved(Chapters[i - 1].status)
    /\ \E k \in 0..Len(Chapters) :
          /\ \A i \in 1..k : Resolved(Chapters[i].status)
          /\ \A i \in (k + 1)..Len(Chapters) :
                \/ Chapters[i].status = "pending"
                \/ i = k + 1 /\ Chapters[i].status = "generating"

C1_Witness ==
    /\ Len(Chapters) = 3
    /\ Chapters[1].status = "error"
    /\ Chapters[2].status = "generating"
    /\ Chapters[3].status = "pending"

\* C2: between two states of the same Book every chapter stays, and its status
\* changes only pending->generating, generating->completed or generating->error.
StatusEdges == {<<"pending", "generating">>, <<"generating", "completed">>,
                <<"generating", "error">>}

C2_StatusTransitions ==
    [][(book # NullBook /\ book' # NullBook) =>
        \A i \in 1..Len(book.chapters) :
            /\ i <= Len(book'.chapters)
            /\ book'.chapters[i].status # book.chapters[i].status =>
                  <<book.chapters[i].status, book'.chapters[i].status>> \in StatusEdges]_vars

C2_Witness ==
    /\ loadingState = SUCCESS
    /\ \E i, j \in 1..Len(Chapters) :
          Chapters[i].status = "completed" /\ Chapters[j].status = "error"


\* C3: partial-failure resilience. Once the writer call of some chapter k of the
\* run has failed, every chapter of the plan, so every chapter after k, is
\* requested from the writer and resolved (completed or error), when every
\* writer request settles.
WriterFailed(r, k) ==
    /\ r \in Runs
    /\ Len(writing[r].results) >= k
    /\ ~writing[r].results[k].ok

Attempted(r, j) ==
    /\ issued[r].generateChapterContent[j] >= 1
    /\ Len(writing[r].results) >= j
    /\ r = nruns /\ Len(Chapters) >= j /\ Resolved(Chapters[j].status)

C3_PartialFailureResilience ==
    (\E k \in 1..MaxChapters : WriterFailed(nruns, k))
        ~> (/\ nruns \in Runs /\ writing[nruns].pc = "returned"
            /\ \A j \in 1..Len(writing[nruns].currentBook.chapters) : Attempted(nruns, j))

C3_Witness ==
    /\ Len(Chapters) = 3
    /\ WriterFailed(nruns, 1)
    /\ Chapters[2].status = "completed" /\ Chapters[2].content = "body"
    /\ Chapters[3].status = "error"
    /\ Attempted(nruns, 3)

\* C4: final outcome. When the stage is done the loop of the run has returned,
\* it has one result per planned chapter, every chapter whose call failed is in
\* status error with the placeholder, and every other chapter is completed with
\* exactly the content its call returned.
C4_FinalOutcome ==
    loadingState = SUCCESS =>
        LET w == writing[nruns] IN
        /\ w.pc = "returned"
        /\ book # NullBook
        /\ Len(Chapters) = Len(w.currentBook.chapters)
        /\ Len(w.results) = Len(Chapters)
        /\ \A i \in 1..Len(Chapters) :
              IF w.results[i].ok
              THEN /\ Chapters[i].status = "completed"
                   /\ Chapters[i].content = w.results[i].content
              ELSE /\ Chapters[i].status = "error"
                   /\ Chapters[i].content = ErrorPlaceholder

C4_Witness ==
    /\ loadingState = SUCCESS
    /\ Len(Chapters) = 3
    /\ Chapters[1].status = "completed" /\ Chapters[1].content = "body"
    /\ Chapters[2].status = "error" /\ Chapters[2].content = ErrorPlaceholder
    /\ Chapters[3].status = "completed" /\ Chapters[3].content = "body"

\* C5: liveness of the writing stage. From stage WRITING the run reaches stage
\* SUCCESS when every writer request settles, with no assumption on the cover.
C5_WritingReachesDone == (loadingState = WRITING) ~> (loadingState = SUCCESS)

C5_Witness ==
    /\ loadingState = SUCCESS
    /\ Len(Chapters) = MaxChapters
    /\ \A i \in 1..Len(Chapters) : Chapters[i].status = "error"
    /\ \E c \in CoverCalls : cover[c].pc = "generateBookCover"

\* C6: the stage of a run changes only IDLE->PARSING->PLANNING->WRITING->SUCCESS
\* or from PARSING or PLANNING to ERROR, and never from WRITING or SUCCESS to
\* ERROR. (The operator's Try Again, which discards the failed run, is the one
\* other change of the stage.)
StageEdges == {<<IDLE, PARSING>>, <<PARSING, PLANNING>>, <<PLANNING, WRITING>>,
               <<WRITING, SUCCESS>>, <<PARSING, ERROR>>, <<PLANNING, ERROR>>}

RunFailed(r) == caught.run = r /\ r # 0

CoverSettles(c) ==
    \/ \E u \in Urls : generateBookCoverResolved(c, u)
    \/ generateBookCoverRejected(c)

StaleStep(r) ==
    \/ WriterSettles(r)
    \/ \E c \in CoverCalls : cover[c].run = r /\ CoverSettles(c)

C9_CoverNeverGates ==
    /\ \A r \in Runs : writing[r].pc = "generateChapterContent" =>
          /\ \A content \in Contents : ENABLED generateChapterContentResolved(r, content)
          /\ ENABLED generateChapterContentRejected(r)
    /\ \A c \in CoverCalls : cover[c].pc = "generateBookCover" =>
          /\ \A u \in Urls : ENABLED generateBookCoverResolved(c, u)
          /\ ENABLED generateBookCoverRejected(c)

\* all chapters were written and the stage is done while the cover request
\* launched by processChapters is still pending
C9_Witness ==
    /\ loadingState = SUCCESS
    /\ Len(Chapters) >= 2
    /\ \A i \in 1..Len(Chapters) : Chapters[i].status = "completed"
    /\ nclicks = 0
    /\ cover[ncovers].pc = "generateBookCover"
    /\ isGeneratingCover

\* C10: a failed cover request changes neither the Book (coverUrl, chapters)
\* nor the stage, the steps or the error message, and the run still reaches
\* stage SUCCESS.
C10_CoverFailureLocal ==
    /\ [][\A c \in CoverCalls : generateBookCoverRejected(c) =>
            UNCHANGED <<book, loadingState, steps, errorMsg>>]_vars
    /\ \A c \in CoverCalls : (cover[c].pc = "failed") ~> (loadingState = SUCCESS)

C10_Witness ==
    /\ loadingState = SUCCESS
    /\ book # NullBook /\ book.coverUrl = "url1"
    /\ \E c \in CoverCalls : cover[c].pc = "failed" /\ c = ncovers /\ c > 1

\* C11: no write-write race between the two chains. A step of the chapter
\* chain (the entry of processChapters or a settled writer request) leaves
\* coverUrl, metadata and rawText as they are; a settled cover request sets
\* coverUrl to its reference and leaves the chapters as they are; and in every
\* state each chapter whose writer request has settled holds the outcome of that
\* request, whatever cover results were applied in between.
ChapterChainStep(r) == processChapters(r) \/ WriterSettles(r)

HoldsResult(ch, result) ==
    IF result.ok THEN ch.status = "completed" /\ ch.content = result.content
    ELSE ch.status = "error" /\ ch.content = ErrorPlaceholder

C11_NoWriteWriteRace ==
    /\ [][/\ \A r \in Runs : (ChapterChainStep(r) /\ book # NullBook) =>
                /\ book' # NullBook
                /\ book'.coverUrl = book.coverUrl
                /\ book'.metadata = book.metadata
                /\ book'.rawText = book.rawText
          /\ \A c \in CoverCalls, u \in Urls :
                (generateBookCoverResolved(c, u) /\ book # NullBook) =>
                    /\ book' # NullBook
                    /\ book'.coverUrl = u
                    /\ book'.chapters = book.chapters]_vars
    /\ [](\A r \in Runs : (r = nruns /\ book # NullBook) =>
            \A k \in 1..Len(writing[r].results) :
                /\ k <= Len(book.chapters)
                /\ HoldsResult(book.chapters[k], writing[r].results[k]))

C11_Witness ==
    /\ loadingState = WRITING
    /\ book # NullBook
    /\ book.coverUrl \in Urls
    /\ Len(book.chapters) >= 2
    /\ book.chapters[1].status = "completed" /\ book.chapters[1].content = "body"
    /\ book.chapters[2].status = "generating"

\* C12: once the Book is materialized, the number of chapters, their order and
\* their identifiers (and title, description, pageStart) never change during
\* the run, and neither do metadata and rawText: every step between two states
\* of the Book keeps them, and the Book on screen always has the chapters, the
\* metadata and the source text of the Book the run materialized.
SameFrame(a, b) ==
    /\ Len(a.chapters) = Len(b.chapters)
    /\ \A i \in 1..Len(a.chapters) :
          /\ a.chapters[i].id = b.chapters[i].id
          /\ a.chapters[i].title = b.chapters[i].title
          /\ a.chapters[i].description = b.chapters[i].description
          /\ a.chapters[i].pageStart = b.chapters[i].pageStart
    /\ a.metadata = b.metadata
    /\ a.rawText = b.rawText

C12_BookFrameFixed ==
    /\ [][(book # NullBook /\ book' # NullBook) => SameFrame(book, book')]_vars
    /\ [](book # NullBook => (nruns \in Runs /\ SameFrame(upload[nruns].newBook, book)))

C12_Witness ==
    /\ loadingState = SUCCESS
    /\ book # NullBook
    /\ Len(book.chapters) = 3
    /\ book.coverUrl \in Urls
    /\ book.chapters[1].status = "completed"
    /\ book.chapters[2].status = "error"
    /\ book.chapters[3].status = "completed"

\* C13 as stated: in every state the content of every chapter is non-empty if
\* and only if its status is completed.
C13_ContentIffCompleted ==
    \A i \in 1..Len(Chapters) :
        (Chapters[i].content # "") <=> (Chapters[i].status = "completed")

\* C13 amended: in every state the content of a chapter is non-empty only if
\* its status is completed or error: a pending or generating chapter has the
\* empty content (a completed chapter may hold the empty string, an error
\* chapter holds the non-empty placeholder).
C13_ContentOnlyWhenResolved ==
    \A i \in 1..Len(Chapters) :
        (Chapters[i].content # "") => Resolved(Chapters[i].status)

C13_Witness ==
    /\ Len(Chapters) = 3
    /\ Chapters[1].status = "completed" /\ Chapters[1].content = ""
    /\ Chapters[2].status = "error" /\ Chapters[2].content = ErrorPlaceholder
    /\ Chapters[3].status = "generating" /\ Chapters[3].content = ""

\* C14: in every state the content of every chapter is the fixed error
\* placeholder if and only if its status is error.
C14_PlaceholderIffError ==
    \A i \in 1..Len(Chapters) :
        (Chapters[i].content = ErrorPlaceholder) <=> (Chapters[i].status = "error")

\* C15: when a chapter-writer call returns without raising, the step that
\* receives its body marks the chapter completed with that body, the empty
\* string included; and a chapter gets status error only in the step that
\* receives the error raised by its own writer call.
C15_EmptyBodyCompletes ==
    [][book # NullBook =>
        /\ \A r \in Runs, c \in Contents :
              generateChapterContentResolved(r, c) =>
                  /\ book' # NullBook
                  /\ book'.chapters[writing[r].i].status = "completed"
                  /\ book'.chapters[writing[r].i].content = c
        /\ \A i \in 1..Len(book.chapters) :
              (/\ book' # NullBook
               /\ i <= Len(book'.chapters)
               /\ book'.chapters[i].status = "error"
               /\ book.chapters[i].status # "error") =>
                  \E r \in Runs : generateChapterContentRejected(r) /\ writing[r].i = i]_vars

C15_Witness ==
    /\ nruns \in Runs
    /\ Len(Chapters) = 2
    /\ Len(writing[nruns].results) = 2
    /\ writing[nruns].results[1] = [ok |-> TRUE, content |-> ""]
    /\ Chapters[1].status = "completed" /\ Chapters[1].content = ""
    /\ ~writing[nruns].results[2].ok
    /\ Chapters[2].status = "error"

\* C16: cancellation checkpoint. Once the abort signal is set, no step starts a
\* chapter: no chapter-writer request is issued, and every chapter that is
\* pending stays pending.
C16_CancellationCheckpoint ==
    [][abortRef =>
        /\ \A r \in Runs :
              issued'[r].generateChapterContent = issued[r].generateChapterContent
        /\ (book # NullBook /\ book' # NullBook) =>
              \A i \in 1..Len(book.chapters) :
                  (i <= Len(book'.chapters) /\ book.chapters[i].status = "pending") =>
                      book'.chapters[i].status = "pending"]_vars

\* C17: a planner response that lacks a required field of the schema is
\* rejected: the step that receives it takes the run to ERROR and leaves no
\* Book; it is never accepted with default metadata or an empty chapter list.
Malformed(structure) == structure.metadata = Undefined \/ structure.chapters = Undefined

C17_MalformedPlanRejected ==
    [][\A r \in Runs, s \in Structures :
        (Malformed(s) /\ generateBookStructureResolved(r, s)) =>
            (loadingState' = ERROR /\ book' = NullBook)]_vars

\* C18: for every planning result received, the materialized Book has exactly
\* one chapter per planned chapter, in plan order and with the plan's
\* identifier, and the identifiers of the Book's chapters are pairwise distinct.
DistinctIds(chs) ==
    \A i, j \in 1..Len(chs) : i # j => chs[i].id # chs[j].id

C18_OneChapterPerPlanned ==
    [][\A r \in Runs, s \in Structures :
        (s.chapters # Undefined /\ generateBookStructureResolved(r, s)) =>
            /\ book' # NullBook
            /\ Len(book'.chapters) = Len(s.chapters.items)
            /\ \A k \in 1..Len(s.chapters.items) :
                  book'.chapters[k].id = s.chapters.items[k].id
            /\ DistinctIds(book'.chapters)]_vars

\* C19: cover regeneration is repeatable. Every cover request that succeeds
\* replaces coverUrl by its own reference, whatever cover the Book already has;
\* a pending cover request can always succeed; and once no cover request is
\* pending, the cover button accepts the next request (as long as the editor
\* is shown), so the second request is not dropped because of the first.
NoCoverPending == \A c \in CoverCalls : cover[c].pc # "generateBookCover"

C19_CoverRepeatable ==
    /\ [][\A c \in CoverCalls, u \in Urls :
            (generateBookCoverResolved(c, u) /\ book # NullBook) =>
                (book' # NullBook /\ book'.coverUrl = u)]_vars
    /\ [](\A c \in CoverCalls : cover[c].pc = "generateBookCover" =>
            \A u \in Urls : ENABLED generateBookCoverResolved(c, u))
    /\ []((/\ showEditor /\ book # NullBook /\ Quiescent
           /\ NoCoverPending /\ nclicks < MaxCoverClicks) => ENABLED CoverButton)

C19_Witness ==
    /\ ncovers = 2
    /\ cover[1].pc = "returned" /\ cover[2].pc = "returned"
    /\ cover[1].metadata = cover[2].metadata
    /\ nclicks = 1
    /\ book # NullBook
    /\ book.coverUrl = "url2"

\* C20: no automatic retries. In every state and for every run, the extractor
\* and the planner have been invoked at most once, the chapter-writer at most
\* once for each chapter (exactly once for a chapter that was started, an
\* error chapter included), and the cover generator has been invoked by the
\* pipeline itself exactly once if the run reached the writing stage and not
\* at all otherwise.
AutomaticCovers(r) ==
    {c \in CoverCalls : cover[c].run = r /\ cover[c].by = "processChapters"}

C20_NoAutomaticRetries ==
    \A r \in Runs :
        /\ issued[r].parseDocx = (IF upload[r].pc = "unused" THEN 0 ELSE 1)
        /\ issued[r].generateBookStructure <= 1
        /\ \A i \in 1..MaxChapters : issued[r].generateChapterContent[i] <= 1
        /\ (r = nruns /\ book # NullBook) =>
              \A i \in 1..Len(book.chapters) :
                  issued[r].generateChapterContent[i] =
                      (IF Started(book.chapters[i].status) THEN 1 ELSE 0)
        /\ Cardinality(AutomaticCovers(r)) = (IF writing[r].pc = "unused" THEN 0 ELSE 1)

C20_Witness ==
    /\ loadingState = SUCCESS
    /\ nruns = 2
    /\ Len(Chapters) = 2
    /\ Chapters[1].status = "error"
    /\ Chapters[2].status = "completed"
    /\ issued[2].generateChapterContent[1] = 1
    /\ Cardinality(AutomaticCovers(2)) = 1
    /\ cover[1].pc = "failed"

OutstandingWrites == {r \in Runs : writing[r].pc = "generateChapterContent"}
GeneratingChapters == {i \in 1..Len(Chapters) : Chapters[i].status = "generating"}

C22_NoParallelWrites ==
    /\ Cardinality(OutstandingWrites) <= 1
    /\ Cardinality(GeneratingChapters) <= 1
    /\ \A r \in Runs : \A i \in 1..MaxChapters :
          issued[r].generateChapterContent[i] = 1 /\ i > Len(writing[r].results) =>
              (r \in OutstandingWrites /\ writing[r].i = i)
    /\ \A i \in GeneratingChapters :
          \E r \in OutstandingWrites : writing[r].i = i
    /\ \A r \in OutstandingWrites :
          book # NullBook => GeneratingChapters = {writing[r].i}

C22_Witness ==
    /\ Cardinality(OutstandingWrites) = 1
    /\ GeneratingChapters = {2}
    /\ Len(Chapters) = 3
    /\ Chapters[1].status = "completed"
    /\ Chapters[3].status = "pending"
    /\ isGeneratingCover

FreshChapters(chs) ==
    \A k \in 1..Len(chs) :
        /\ chs[k].status = "pending"
        /\ chs[k].content = ""
        /\ chs[k].pageStart = 15 * (k - 1) + 1

NothingPending ==
    /\ \A r \in Runs : upload[r].pc \in {"unused", "caught"}
    /\ \A r \in Runs : writing[r].pc = "unused"
    /\ \A c \in CoverCalls : cover[c].pc = "unused"

C26_FailedIsAbsorbing ==
    /\ [](loadingState = ERROR => (book = NullBook /\ NothingPending))
    /\ [][loadingState = ERROR =>
            /\ TryAgain
            /\ loadingState' = IDLE
            /\ book' = NullBook
            /\ steps' = steps]_vars
    /\ [][(loadingState = IDLE /\ nruns > 0) =>
            /\ NothingPending
            /\ loadingState' = PARSING
            /\ book' = NullBook
            /\ errorMsg' = NULL
            /\ steps' = <<"processing", "pending", "pending", "pending">>
            /\ nruns' = nruns + 1]_vars

C26_Witness ==
    /\ nruns = 2
    /\ upload[1].pc = "caught"
    /\ issued[1].generateBookStructure = 1
    /\ loadingState = WRITING
    /\ Len(Chapters) = 1
    /\ Chapters[1].status = "generating"

\* C27: the cover-in-progress flag is true exactly while a cover request is
\* outstanding, and at most one cover request is outstanding at any time: the
\* step that starts a request finds the flag false and sets it, the step that
\* settles the request, by success or by failure, clears it.
OutstandingCovers == {c \in CoverCalls : cover[c].pc = "generateBookCover"}

C27_CoverFlag ==
    /\ [](isGeneratingCover <=> OutstandingCovers # {})
    /\ [](Cardinality(OutstandingCovers) <= 1)
    /\ [][/\ ncovers' # ncovers => (~isGeneratingCover /\ isGeneratingCover')
          /\ \A c \in CoverCalls :
                (cover[c].pc = "generateBookCover" /\ cover'[c].pc # "generateBookCover") =>
                    (isGeneratingCover /\ ~isGeneratingCover')]_vars

C27_Witness ==
    /\ ncovers = 2
    /\ cover[1].pc = "failed"
    /\ cover[2].pc = "generateBookCover"
    /\ cover[2].by = "button"
    /\ isGeneratingCover

====
